---- MODULE Spec2Model ----
(***************************************************************************)
(* Model of the chart-repository lookup of pkg/repo (FindChartInAuthRepoURL *)
(* with the process-wide IndexFileCache and mutex), of the `helm repo       *)
(* index` workflow (index with --merge), of ChartRepository.Load and        *)
(* generateIndex, and of IndexFile.Get and ResolveReferenceURL as           *)
(* functions of their arguments.                                            *)
(*                                                                          *)
(* Specifications: Spec and FairSpec (the lookup), SpecHistory (the        *)
(* lookup, with the call that returned last kept in prev), SpecIndex (helm  *)
(* repo index), SpecRepo (Load, generateIndex), SpecCalc (Get,              *)
(* ResolveReferenceURL).                                                    *)
(*                                                                          *)
(* Strings are modelled by their structure:                                 *)
(*   - a version string is the tuple of its numeric components, <<1,2,0>>   *)
(*     for "1.2.0"; the empty string is <<>>; a tuple whose length is not 3 *)
(*     does not parse as a semantic version as a record's version, and one  *)
(*     of length 1 or 2 asked for as a constraint is a range ("1.2");       *)
(*   - a URL string is the record url.Parse makes of it (scheme, host,      *)
(*     rooted, segs), with valid = FALSE for a string url.Parse rejects.    *)
(* Time is counted in minutes.                                              *)
(***************************************************************************)
EXTENDS Integers, Sequences, FiniteSets, TLC

----------------------------------------------------------------------------
(* Bounds of the model *)

NumCallers == 2
MaxTime == 4
MaxCalls == 2

(* Program constants *)

\* cache.New(3*time.Minute, 3*time.Minute): default expiration, in minutes
TTL == 3

Callers == 1 .. NumCallers

----------------------------------------------------------------------------
(* URL strings *)

URL(scheme, host, rooted, segs) ==
    [valid |-> TRUE, scheme |-> scheme, host |-> host, rooted |-> rooted, segs |-> segs]

\* a string url.Parse rejects (such as "%zz")
BadURL == [valid |-> FALSE, scheme |-> "", host |-> "", rooted |-> FALSE, segs |-> <<>>]

\* "https://repo.example/charts/"
RepoSlash == URL("https", "repo.example", TRUE, <<"charts", "">>)
\* "https://repo.example/charts"
RepoNoSlash == URL("https", "repo.example", TRUE, <<"charts">>)
\* "https://other.example"
RepoOther == URL("https", "other.example", FALSE, <<>>)
\* "foo-1.0.0.tgz"
RefFoo == URL("", "", FALSE, <<"foo-1.0.0.tgz">>)
\* "mirror/foo-1.0.0.tgz"
RefAlt == URL("", "", FALSE, <<"mirror", "foo-1.0.0.tgz">>)
\* "https://other/x.tgz"
RefAbs == URL("https", "other", TRUE, <<"x.tgz">>)
\* "https://repo.example/charts//"
RepoTwoSlashes == URL("https", "repo.example", TRUE, <<"charts", "", "">>)
\* "/pool/foo-1.0.0.tgz"
RefRooted == URL("", "", TRUE, <<"pool", "foo-1.0.0.tgz">>)

\* strings.TrimSuffix(path, "/") + "/"
TrimSlashAddSlash(u) ==
    LET trimmed == IF u.segs # <<>> /\ u.segs[Len(u.segs)] = ""
                   THEN SubSeq(u.segs, 1, Len(u.segs) - 1)
                   ELSE u.segs
    IN  [u EXCEPT !.rooted = TRUE, !.segs = Append(trimmed, "")]

\* (*url.URL).ResolveReference, RFC 3986 section 5.2 (no dot segments, no query)
ResolveReference(base, ref) ==
    IF ref.scheme # "" THEN ref
    ELSE IF ref.host # "" THEN [ref EXCEPT !.scheme = base.scheme]
    ELSE IF ref.segs = <<>> /\ ~ref.rooted THEN base
    ELSE IF ref.rooted THEN [base EXCEPT !.segs = ref.segs, !.rooted = TRUE]
    ELSE [base EXCEPT !.rooted = TRUE,
                      !.segs = (IF base.segs = <<>> THEN <<>>
                                ELSE SubSeq(base.segs, 1, Len(base.segs) - 1)) \o ref.segs]

ResolveReferenceURLNoTrim(baseURL, refURL) ==
    IF ~baseURL.valid THEN [err |-> TRUE, url |-> BadURL]
    ELSE IF ~refURL.valid THEN [err |-> TRUE, url |-> BadURL]
    ELSE [err |-> FALSE,
          url |-> ResolveReference([baseURL EXCEPT !.rooted = TRUE, !.segs = Append(@, "")],
                                   refURL)]

\* ResolveReferenceURL: [err, url]
ResolveReferenceURL(baseURL, refURL) ==
    IF ~baseURL.valid THEN [err |-> TRUE, url |-> BadURL]
    ELSE IF ~refURL.valid THEN [err |-> TRUE, url |-> BadURL]
    ELSE [err |-> FALSE, url |-> ResolveReference(TrimSlashAddSlash(baseURL), refURL)]

----------------------------------------------------------------------------
(* The index data model (IndexFile, ChartVersion) *)

ChartNames == {"foo", "bar"}

ChartVersion(name, version, digest, urls) ==
    [Name |-> name, Version |-> version, Digest |-> digest, URLs |-> urls]

\* NewIndexFile(): no entries
NewIndexFile == [n \in ChartNames |-> <<>>]

\* the empty version string ""
NoVersion == <<>>

\* semver.NewVersion succeeds
Parses(v) == Len(v) = 3

\* semantic-version precedence: a < b
SemverLess(a, b) ==
    \/ a[1] < b[1]
    \/ a[1] = b[1] /\ a[2] < b[2]
    \/ a[1] = b[1] /\ a[2] = b[2] /\ a[3] < b[3]

\* a constraint that is a full version is satisfied by that version alone; a
\* constraint of one or two components ("1", "1.2") by every version that
\* starts with them
Satisfies(v, constraint) ==
    /\ Len(constraint) \in 1 .. 3
    /\ \A k \in 1 .. Len(constraint) : v[k] = constraint[k]

\* indexes of the records of vs that parse and are greatest among those that
\* satisfy ok
Best(vs, ok(_)) ==
    {k \in 1 .. Len(vs) :
        /\ Parses(vs[k].Version) /\ ok(vs[k].Version)
        /\ \A j \in 1 .. Len(vs) :
              Parses(vs[j].Version) /\ ok(vs[j].Version)
                  => ~SemverLess(vs[k].Version, vs[j].Version)}

Min(S) == CHOOSE x \in S : \A y \in S : x <= y

NotFound == [found |-> FALSE, cv |-> ChartVersion("", NoVersion, "", <<>>)]
Found(r) == [found |-> TRUE, cv |-> r]

GetLowest(index, name, version) ==
    LET vs == index[name]
        lowest == {k \in 1 .. Len(vs) :
                      /\ Parses(vs[k].Version)
                      /\ \A j \in 1 .. Len(vs) :
                            Parses(vs[j].Version) => ~SemverLess(vs[j].Version, vs[k].Version)}
    IN  IF lowest = {} THEN NotFound ELSE Found(vs[Min(lowest)])

\* IndexFile.Get(name, version): with no constraint the first record, in the
\* sequence's current order, whose version parses; else the exact version
\* string, else the highest version the constraint admits
Get(index, name, version) ==
    LET vs == index[name]
        exact == {k \in 1 .. Len(vs) : vs[k].Version = version}
        parsing == {k \in 1 .. Len(vs) : Parses(vs[k].Version)}
        sat(v) == Satisfies(v, version)
    IN  IF vs = <<>> THEN NotFound
        ELSE IF version = NoVersion
        THEN (IF parsing = {} THEN NotFound ELSE Found(vs[Min(parsing)]))
        ELSE IF exact # {} THEN Found(vs[Min(exact)])
        ELSE IF Best(vs, sat) = {} THEN NotFound
        ELSE Found(vs[Min(Best(vs, sat))])

\* IndexFile.Has(name, version): exact match of name and version string
Has(index, name, version) ==
    \E k \in 1 .. Len(index[name]) : index[name][k].Version = version

\* IndexFile.Add: a no-op when the exact version is present
Add(index, r) ==
    IF Has(index, r.Name, r.Version) THEN index
    ELSE [index EXCEPT ![r.Name] = Append(@, r)]

RECURSIVE AddAll(_, _)
AddAll(index, rs) ==
    IF rs = <<>> THEN index ELSE AddAll(Add(index, Head(rs)), Tail(rs))

\* IndexFile.Merge(other): the receiver's records stay; the versions the
\* receiver lacks are appended
Merge(index, other) ==
    [n \in ChartNames |->
        index[n] \o SelectSeq(other[n], LAMBDA r : ~Has(index, n, r.Version))]

\* a sorts before b: both parse and a is the greater, or only a parses
Before(a, b) ==
    \/ Parses(a.Version) /\ ~Parses(b.Version)
    \/ Parses(a.Version) /\ Parses(b.Version) /\ SemverLess(b.Version, a.Version)

\* stable insertion of r into the sorted sequence s
RECURSIVE Insert(_, _)
Insert(r, s) ==
    IF s = <<>> THEN <<r>>
    ELSE IF Before(r, Head(s)) THEN <<r>> \o s
    ELSE <<Head(s)>> \o Insert(r, Tail(s))

RECURSIVE SortVersions(_)
SortVersions(s) ==
    IF s = <<>> THEN <<>>
    ELSE Insert(s[Len(s)], SortVersions(SubSeq(s, 1, Len(s) - 1)))

\* IndexFile.SortEntries()
SortEntries(index) == [n \in ChartNames |-> SortVersions(index[n])]

----------------------------------------------------------------------------
(* Inputs of the lookup *)

\* repository URLs callers pass as repoURL (the cache keys)
Locators == {RepoSlash, RepoOther}

RequestNames == {"foo"}
RequestVersions == {NoVersion, <<2, 0, 0>>}

\* index.yaml documents a repository may serve
CatOld ==
    [NewIndexFile EXCEPT
        !["foo"] = <<ChartVersion("foo", <<1, 0, 0>>, "d1", <<RefFoo, RefAlt>>)>>]
CatNew ==
    [NewIndexFile EXCEPT
        !["foo"] = <<ChartVersion("foo", <<2, 0, 0>>, "d2", <<RefAbs, RefFoo>>),
                     ChartVersion("foo", <<1, 0, 0>>, "d1", <<RefFoo, RefAlt>>)>>]
CatBad ==
    [NewIndexFile EXCEPT
        !["foo"] = <<ChartVersion("foo", <<3, 0, 0>>, "d3", <<>>),
                     ChartVersion("foo", <<2, 0, 0>>, "d2", <<BadURL, RefFoo>>)>>]

RemoteCatalogs == {CatOld, CatNew, CatBad}

\* ways GetAndCacheIndexFile fails: NewChartRepository (bad URL, no protocol
\* handler), Client.Get / ReadAll, loadIndex, and the write of the mirror file
FetchFailures == {"newrepo", "get", "parse"}

----------------------------------------------------------------------------
(* State *)

VARIABLES
    cache,        \* IndexFileCache: locator -> item
    now,          \* the clock, in minutes
    mu,           \* the holder of mu, 0 when unlocked
    pc,           \* each caller's position in FindChartInAuthRepoURL
    call,         \* each caller's arguments
    repoIndex,    \* each caller's local repoIndex
    result,       \* each caller's return value
    st,           \* history of each caller's current call
    ncalls,       \* calls made so far
    lastFetched,  \* locator -> the catalog downloaded for its current entry
    job,          \* the arguments of `helm repo index`
    fs,           \* the files of the index workflow
    outcome,      \* the result of the index workflow
    repo,         \* the ChartRepository r: its ChartPaths and IndexFile
    tree,         \* the directory r.Config.Name names, as filepath.Walk visits it
    ret,          \* what the last ChartRepository method returned
    calc,         \* a function applied to inputs, and its value
    prev          \* the call of FindChartInAuthRepoURL that returned last

lookupVars == <<cache, now, mu, pc, call, repoIndex, result, st, ncalls, lastFetched, prev>>
indexVars == <<job, fs, outcome>>
repoVars == <<repo, tree, ret>>
calcVars == <<calc>>
vars == <<cache, now, mu, pc, call, repoIndex, result, st, ncalls, lastFetched,
          job, fs, outcome, repo, tree, ret, calc, prev>>

\* cache items: Object is an *IndexFile when isIndexFile, else the
\* *cache.Cache itself
NoItem == [present |-> FALSE, isIndexFile |-> FALSE, Object |-> NewIndexFile, Expiration |-> 0]
IndexItem(index, t) ==
    [present |-> TRUE, isIndexFile |-> TRUE, Object |-> index, Expiration |-> t + TTL]
CacheItem(t) ==
    [present |-> TRUE, isIndexFile |-> FALSE, Object |-> NewIndexFile, Expiration |-> t + TTL]

\* go-cache Item.Expired: time.Now().UnixNano() > item.Expiration
Expired(item, t) == t > item.Expiration

CacheFoundNoExpiry(c, k, t) == c[k].present

\* IndexFileCache.Get(k): found
CacheFound(c, k, t) == c[k].present /\ ~Expired(c[k], t)

NoCall == [repoURL |-> RepoSlash, chartName |-> "foo", chartVersion |-> NoVersion,
           username |-> <<>>]
NoResult == [status |-> "none", url |-> BadURL, chartName |-> "", chartVersion |-> NoVersion,
             repoURL |-> BadURL]
NoStats == [mirror |-> "none", hit |-> FALSE, fetches |-> 0, gets |-> 0, deletes |-> 0, get1 |-> "none",
            raced |-> FALSE, failed |-> FALSE]

\* no call has returned yet
NoPrev == [made |-> FALSE, call |-> NoCall, result |-> NoResult, st |-> NoStats]

Ok(u) == [NoResult EXCEPT !.status = "ok", !.url = u]
Err(kind) == [NoResult EXCEPT !.status = kind]
\* "chart %q version %q not found in %s repository"
ChartNotFound(c) ==
    [NoResult EXCEPT !.status = "ChartNotFound", !.chartName = c.chartName,
                     !.chartVersion = c.chartVersion, !.repoURL = c.repoURL]

\* files: "out" is dir/index.yaml, "other" an index file elsewhere
Paths == {"out", "other"}
Missing == [exists |-> FALSE, parses |-> FALSE, index |-> NewIndexFile]
\* a file LoadIndexFile cannot read or parse
Garbage == [exists |-> TRUE, parses |-> FALSE, index |-> NewIndexFile]
\* the file IndexFile.WriteFile makes of an index
File(index) == [exists |-> TRUE, parses |-> TRUE, index |-> index]

NoJob == [archives |-> <<>>, mergeTo |-> "", dirOk |-> TRUE, phase |-> "off"]
NoFiles == [f \in Paths |-> Missing]
NoOutcome == [err |-> "", generated |-> NewIndexFile, index |-> NewIndexFile, before |-> NoFiles]

\* a ChartRepository as NewChartRepository makes it, no directory, nothing returned
NoRepo == [ChartPaths |-> <<>>, IndexFile |-> NewIndexFile]
NoTree == [root |-> "none", files |-> <<>>]
NoRet == [op |-> "none", err |-> "", before |-> NoRepo, runs |-> 0]
NoCalc == [op |-> "none"]

Init ==
    /\ cache = [k \in Locators |-> NoItem]
    /\ now = 0
    /\ mu = 0
    /\ pc = [p \in Callers |-> "idle"]
    /\ call = [p \in Callers |-> NoCall]
    /\ repoIndex = [p \in Callers |-> NewIndexFile]
    /\ result = [p \in Callers |-> NoResult]
    /\ st = [p \in Callers |-> NoStats]
    /\ ncalls = 0
    /\ lastFetched = [k \in Locators |-> NewIndexFile]
    /\ prev = NoPrev
    /\ job = NoJob
    /\ fs = NoFiles
    /\ outcome = NoOutcome
    /\ repo = NoRepo
    /\ tree = NoTree
    /\ ret = NoRet
    /\ calc = NoCalc

----------------------------------------------------------------------------
(* FindChartInAuthRepoURL *)

\* the username (and with it the password, certificate, key and CA file) a
\* caller passes: each caller has its own
Username(p) == <<"user", p>>

\* a caller enters FindChartInAuthRepoURL and waits at mu.Lock()
Call(p) ==
    /\ pc[p] = "idle"
    /\ ncalls < MaxCalls
    /\ \E u \in Locators, n \in RequestNames, v \in RequestVersions :
           call' = [call EXCEPT ![p] = [repoURL |-> u, chartName |-> n, chartVersion |-> v,
                                        username |-> Username(p)]]
    /\ pc' = [pc EXCEPT ![p] = "lock"]
    /\ ncalls' = ncalls + 1
    /\ UNCHANGED <<cache, now, mu, repoIndex, result, st, lastFetched, indexVars, repoVars, calcVars, prev>>

LockNoWait(p) ==
    /\ pc[p] = "lock"
    /\ mu' = p
    /\ pc' = [pc EXCEPT ![p] = "check"]
    /\ UNCHANGED <<cache, now, call, repoIndex, result, st, ncalls, lastFetched, indexVars, repoVars, calcVars, prev>>

\* mu.Lock()
Lock(p) ==
    /\ pc[p] = "lock"
    /\ mu = 0
    /\ mu' = p
    /\ pc' = [pc EXCEPT ![p] = "check"]
    /\ UNCHANGED <<cache, now, call, repoIndex, result, st, ncalls, lastFetched, indexVars, repoVars, calcVars, prev>>

\* IndexFileCache.Get(repoURL) finds nothing
CacheMiss(p) ==
    /\ pc[p] = "check"
    /\ ~CacheFound(cache, call[p].repoURL, now)
    /\ pc' = [pc EXCEPT ![p] = "fetch1"]
    /\ UNCHANGED <<cache, now, mu, call, repoIndex, result, st, ncalls, lastFetched, indexVars, repoVars, calcVars, prev>>

CacheHitRefetch(p) ==
    /\ pc[p] = "check"
    /\ CacheFound(cache, call[p].repoURL, now)
    /\ cache[call[p].repoURL].isIndexFile
    /\ st' = [st EXCEPT ![p].hit = TRUE]
    /\ pc' = [pc EXCEPT ![p] = "fetch1"]
    /\ UNCHANGED <<cache, now, mu, call, repoIndex, result, ncalls, lastFetched, indexVars, repoVars, calcVars, prev>>

\* IndexFileCache.Get(repoURL) finds a value and value.(*IndexFile) succeeds
CacheHit(p) ==
    /\ pc[p] = "check"
    /\ CacheFound(cache, call[p].repoURL, now)
    /\ cache[call[p].repoURL].isIndexFile
    /\ repoIndex' = [repoIndex EXCEPT ![p] = cache[call[p].repoURL].Object]
    /\ st' = [st EXCEPT ![p].hit = TRUE]
    /\ pc' = [pc EXCEPT ![p] = "get1"]
    /\ UNCHANGED <<cache, now, mu, call, result, ncalls, lastFetched, indexVars, repoVars, calcVars, prev>>

\* IndexFileCache.Get(repoURL) finds a value that is no *IndexFile: the type
\* assertion panics and the call unwinds
CachePanic(p) ==
    /\ pc[p] = "check"
    /\ CacheFound(cache, call[p].repoURL, now)
    /\ ~cache[call[p].repoURL].isIndexFile
    /\ st' = [st EXCEPT ![p].hit = TRUE]
    /\ result' = [result EXCEPT ![p] = Err("panic")]
    /\ pc' = [pc EXCEPT ![p] = "ret"]
    /\ UNCHANGED <<cache, now, mu, call, repoIndex, ncalls, lastFetched, indexVars, repoVars, calcVars, prev>>

\* the callers waiting at mu.Lock() for the same locator see a fetch happen
Raced(p) ==
    [q \in Callers |->
        IF q # p /\ pc[q] = "lock" /\ call[q].repoURL = call[p].repoURL
        THEN [st[q] EXCEPT !.raced = TRUE]
        ELSE IF q = p THEN [st[q] EXCEPT !.fetches = @ + 1]
        ELSE st[q]]

\* GetAndCacheIndexFile succeeds: the index is downloaded and cached
FetchOk(p, from, to) ==
    /\ pc[p] = from
    /\ \E index \in RemoteCatalogs :
          /\ cache' = [cache EXCEPT ![call[p].repoURL] = IndexItem(index, now)]
          /\ repoIndex' = [repoIndex EXCEPT ![p] = index]
          /\ lastFetched' = [lastFetched EXCEPT ![call[p].repoURL] = index]
    /\ st' = [Raced(p) EXCEPT ![p].mirror = "written"]
    /\ pc' = [pc EXCEPT ![p] = to]
    /\ UNCHANGED <<now, mu, call, result, ncalls, indexVars, repoVars, calcVars, prev>>

\* GetAndCacheIndexFile fails: the error is returned
FetchErr(p, from) ==
    /\ pc[p] = from
    /\ \E e \in FetchFailures :
          result' = [result EXCEPT ![p] =
                        Err(IF e = "newrepo" THEN "NewRepoError" ELSE "DownloadError")]
    /\ st' = [st EXCEPT ![p].fetches = @ + 1, ![p].failed = TRUE]
    /\ pc' = [pc EXCEPT ![p] = "ret"]
    /\ UNCHANGED <<cache, now, mu, call, repoIndex, ncalls, lastFetched, indexVars, repoVars, calcVars, prev>>

FetchMirrorErrIgnored(p, from) ==
    /\ pc[p] = from
    /\ \E index \in RemoteCatalogs :
          /\ cache' = [cache EXCEPT ![call[p].repoURL] = IndexItem(index, now)]
          /\ repoIndex' = [repoIndex EXCEPT ![p] = index]
          /\ lastFetched' = [lastFetched EXCEPT ![call[p].repoURL] = index]
    /\ st' = [Raced(p) EXCEPT ![p].mirror = "no index file"]
    /\ pc' = [pc EXCEPT ![p] = IF from = "fetch1" THEN "get1" ELSE "get2"]
    /\ UNCHANGED <<now, mu, call, result, ncalls, indexVars, repoVars, calcVars, prev>>

\* DownloadIndexFile has downloaded and parsed the index, and writing it to the
\* cache directory fails (line 205): GetAndCacheIndexFile returns the error
\* before IndexFileCache.Set
FetchMirrorErr(p, from) ==
    /\ pc[p] = from
    /\ result' = [result EXCEPT ![p] = Err("DownloadError")]
    /\ st' = [st EXCEPT ![p].fetches = @ + 1, ![p].failed = TRUE,
                        ![p].mirror = "no index file"]
    /\ pc' = [pc EXCEPT ![p] = "ret"]
    /\ UNCHANGED <<cache, now, mu, call, repoIndex, ncalls, lastFetched, indexVars, repoVars, calcVars, prev>>

FetchFirstOk(p) == FetchOk(p, "fetch1", "get1")

FetchFirstErrNoUnlock(p) ==
    /\ pc[p] = "fetch1"
    /\ pc' = [pc EXCEPT ![p] = "idle"]
    /\ UNCHANGED <<cache, now, mu, call, repoIndex, result, st, ncalls, lastFetched,
                   indexVars, repoVars, calcVars, prev>>

FetchFirstErr(p) == FetchErr(p, "fetch1")
FetchFirstMirrorErr(p) == FetchMirrorErr(p, "fetch1")
RefetchOk(p) == FetchOk(p, "fetch2", "get2")
RefetchMirrorErr(p) == FetchMirrorErr(p, "fetch2")

RefetchErrSwallowed(p) ==
    /\ pc[p] = "fetch2"
    /\ st' = [st EXCEPT ![p].fetches = @ + 1, ![p].failed = TRUE]
    /\ pc' = [pc EXCEPT ![p] = "get2"]
    /\ UNCHANGED <<cache, now, mu, call, repoIndex, result, ncalls, lastFetched, indexVars, repoVars, calcVars, prev>>

RefetchErr(p) == FetchErr(p, "fetch2")

ChartURLLast(repoURL, cv) ==
    IF Len(cv.URLs) = 0 THEN Err("NoDownloadableURLs")
    ELSE LET r == ResolveReferenceURL(repoURL, cv.URLs[Len(cv.URLs)])
         IN  IF r.err THEN Err("URLResolution") ELSE Ok(r.url)

\* lines 293-304: the URL of the chart version found
ChartURL(repoURL, cv) ==
    IF Len(cv.URLs) = 0 THEN Err("NoDownloadableURLs")
    ELSE LET r == ResolveReferenceURL(repoURL, cv.URLs[1])
         IN  IF r.err THEN Err("URLResolution") ELSE Ok(r.url)

\* repoIndex.Get succeeds at the first attempt
GetFirstOk(p) ==
    /\ pc[p] = "get1"
    /\ Get(repoIndex[p], call[p].chartName, call[p].chartVersion).found
    /\ result' = [result EXCEPT ![p] =
          ChartURL(call[p].repoURL,
                   Get(repoIndex[p], call[p].chartName, call[p].chartVersion).cv)]
    /\ st' = [st EXCEPT ![p].gets = @ + 1, ![p].get1 = "ok"]
    /\ pc' = [pc EXCEPT ![p] = "ret"]
    /\ UNCHANGED <<cache, now, mu, call, repoIndex, ncalls, lastFetched, indexVars, repoVars, calcVars, prev>>

GetFirstErrRetryOnHitOnly(p) ==
    /\ pc[p] = "get1"
    /\ ~Get(repoIndex[p], call[p].chartName, call[p].chartVersion).found
    /\ cache' = [cache EXCEPT ![call[p].repoURL] = NoItem]
    /\ lastFetched' = [lastFetched EXCEPT ![call[p].repoURL] = NewIndexFile]
    /\ st' = [st EXCEPT ![p].gets = @ + 1, ![p].get1 = "err", ![p].deletes = @ + 1]
    /\ pc' = [pc EXCEPT ![p] = IF st[p].hit THEN "fetch2" ELSE "ret"]
    /\ result' = [result EXCEPT ![p] = IF st[p].hit THEN @ ELSE ChartNotFound(call[p])]
    /\ UNCHANGED <<now, mu, call, repoIndex, ncalls, indexVars, repoVars, calcVars, prev>>

GetFirstErrNoDelete(p) ==
    /\ pc[p] = "get1"
    /\ ~Get(repoIndex[p], call[p].chartName, call[p].chartVersion).found
    /\ st' = [st EXCEPT ![p].gets = @ + 1, ![p].get1 = "err", ![p].deletes = @ + 1,
                        ![p].mirror = "none"]
    /\ pc' = [pc EXCEPT ![p] = "fetch2"]
    /\ UNCHANGED <<cache, lastFetched, now, mu, call, repoIndex, result, ncalls,
                   indexVars, repoVars, calcVars, prev>>

GetFirstErrFlush(p) ==
    /\ pc[p] = "get1"
    /\ ~Get(repoIndex[p], call[p].chartName, call[p].chartVersion).found
    /\ cache' = [k \in Locators |-> NoItem]
    /\ lastFetched' = [k \in Locators |-> NewIndexFile]
    /\ st' = [st EXCEPT ![p].gets = @ + 1, ![p].get1 = "err", ![p].deletes = @ + 1,
                        ![p].mirror = "none"]
    /\ pc' = [pc EXCEPT ![p] = "fetch2"]
    /\ UNCHANGED <<now, mu, call, repoIndex, result, ncalls, indexVars, repoVars, calcVars, prev>>

\* repoIndex.Get fails at the first attempt: IndexFileCache.Delete(repoURL)
GetFirstErr(p) ==
    /\ pc[p] = "get1"
    /\ ~Get(repoIndex[p], call[p].chartName, call[p].chartVersion).found
    /\ cache' = [cache EXCEPT ![call[p].repoURL] = NoItem]
    /\ lastFetched' = [lastFetched EXCEPT ![call[p].repoURL] = NewIndexFile]
    /\ st' = [st EXCEPT ![p].gets = @ + 1, ![p].get1 = "err", ![p].deletes = @ + 1,
                        ![p].mirror = "none"]
    /\ pc' = [pc EXCEPT ![p] = "fetch2"]
    /\ UNCHANGED <<now, mu, call, repoIndex, result, ncalls, indexVars, repoVars, calcVars, prev>>

\* repoIndex.Get succeeds at the second attempt:
\* IndexFileCache.Set(repoURL, IndexFileCache, cache.DefaultExpiration)
GetSecondOk(p) ==
    /\ pc[p] = "get2"
    /\ Get(repoIndex[p], call[p].chartName, call[p].chartVersion).found
    /\ cache' = [cache EXCEPT ![call[p].repoURL] = CacheItem(now)]
    /\ result' = [result EXCEPT ![p] =
          ChartURL(call[p].repoURL,
                   Get(repoIndex[p], call[p].chartName, call[p].chartVersion).cv)]
    /\ st' = [st EXCEPT ![p].gets = @ + 1]
    /\ pc' = [pc EXCEPT ![p] = "ret"]
    /\ UNCHANGED <<now, mu, call, repoIndex, ncalls, lastFetched, indexVars, repoVars, calcVars, prev>>

GetSecondErrLoop(p) ==
    /\ pc[p] = "get2"
    /\ ~Get(repoIndex[p], call[p].chartName, call[p].chartVersion).found
    /\ cache' = [cache EXCEPT ![call[p].repoURL] = NoItem]
    /\ lastFetched' = [lastFetched EXCEPT ![call[p].repoURL] = NewIndexFile]
    /\ st' = [st EXCEPT ![p].gets = @ + 1, ![p].deletes = @ + 1]
    /\ pc' = [pc EXCEPT ![p] = "fetch2"]
    /\ UNCHANGED <<now, mu, call, repoIndex, result, ncalls, indexVars, repoVars, calcVars, prev>>

\* repoIndex.Get fails at the second attempt
GetSecondErr(p) ==
    /\ pc[p] = "get2"
    /\ ~Get(repoIndex[p], call[p].chartName, call[p].chartVersion).found
    /\ result' = [result EXCEPT ![p] = ChartNotFound(call[p])]
    /\ st' = [st EXCEPT ![p].gets = @ + 1]
    /\ pc' = [pc EXCEPT ![p] = "ret"]
    /\ UNCHANGED <<cache, now, mu, call, repoIndex, ncalls, lastFetched, indexVars, repoVars, calcVars, prev>>

\* defer mu.Unlock(), on return and on panic; the call's locals are gone
Return(p) ==
    /\ pc[p] = "ret"
    /\ mu' = 0
    /\ pc' = [pc EXCEPT ![p] = "idle"]
    /\ call' = [call EXCEPT ![p] = NoCall]
    /\ repoIndex' = [repoIndex EXCEPT ![p] = NewIndexFile]
    /\ result' = [result EXCEPT ![p] = NoResult]
    /\ st' = [st EXCEPT ![p] = NoStats]
    /\ UNCHANGED <<cache, now, ncalls, lastFetched, indexVars, repoVars, calcVars>>

Unlock(p) == Return(p) /\ UNCHANGED prev

\* the same return, with the call and what it returned kept as history
UnlockRecorded(p) ==
    /\ Return(p)
    /\ prev' = [made |-> TRUE, call |-> call[p], result |-> result[p], st |-> st[p]]

\* a minute passes
Tick ==
    /\ now < MaxTime
    /\ now' = now + 1
    /\ UNCHANGED <<cache, mu, pc, call, repoIndex, result, st, ncalls, lastFetched, indexVars, repoVars, calcVars, prev>>

SweepNeedsLock ==
    /\ mu = 0
    /\ cache' = [k \in Locators |-> IF cache[k].present /\ Expired(cache[k], now)
                                    THEN NoItem ELSE cache[k]]
    /\ lastFetched' = [k \in Locators |-> IF cache[k].present /\ Expired(cache[k], now)
                                          THEN NewIndexFile ELSE lastFetched[k]]
    /\ UNCHANGED <<now, mu, pc, call, repoIndex, result, st, ncalls, indexVars, repoVars, calcVars, prev>>

\* the janitor of IndexFileCache: DeleteExpired()
Sweep ==
    /\ cache' = [k \in Locators |-> IF cache[k].present /\ Expired(cache[k], now)
                                    THEN NoItem ELSE cache[k]]
    /\ lastFetched' = [k \in Locators |-> IF cache[k].present /\ Expired(cache[k], now)
                                          THEN NewIndexFile ELSE lastFetched[k]]
    /\ UNCHANGED <<now, mu, pc, call, repoIndex, result, st, ncalls, indexVars, repoVars, calcVars, prev>>

Next ==
    \/ \E p \in Callers : Call(p)
    \/ \E p \in Callers : Lock(p)
    \/ \E p \in Callers : CacheMiss(p)
    \/ \E p \in Callers : CacheHit(p)
    \/ \E p \in Callers : CachePanic(p)
    \/ \E p \in Callers : FetchFirstOk(p)
    \/ \E p \in Callers : FetchFirstErr(p)
    \/ \E p \in Callers : FetchFirstMirrorErr(p)
    \/ \E p \in Callers : GetFirstOk(p)
    \/ \E p \in Callers : GetFirstErr(p)
    \/ \E p \in Callers : RefetchOk(p)
    \/ \E p \in Callers : RefetchErr(p)
    \/ \E p \in Callers : RefetchMirrorErr(p)
    \/ \E p \in Callers : GetSecondOk(p)
    \/ \E p \in Callers : GetSecondErr(p)
    \/ \E p \in Callers : Unlock(p)
    \/ Tick
    \/ Sweep

Spec == Init /\ [][Next]_vars

\* the steps of p between mu.Lock() and the deferred mu.Unlock()
Run(p) ==
    \/ CacheMiss(p) \/ CacheHit(p) \/ CachePanic(p)
    \/ FetchFirstOk(p) \/ FetchFirstErr(p) \/ FetchFirstMirrorErr(p)
    \/ GetFirstOk(p) \/ GetFirstErr(p)
    \/ RefetchOk(p) \/ RefetchErr(p) \/ RefetchMirrorErr(p)
    \/ GetSecondOk(p) \/ GetSecondErr(p)
    \/ Unlock(p)

\* a goroutine that holds the lock keeps running and every fetch returns; a
\* goroutine waiting at mu.Lock() is not passed over for ever (sync.Mutex
\* hands the lock to a waiter that has waited long)
FairSpec == Spec /\ \A p \in Callers : WF_vars(Run(p)) /\ SF_vars(Lock(p))

\* the lookup with the history of the last call that returned
NextHistory ==
    \/ \E p \in Callers : Call(p)
    \/ \E p \in Callers : Lock(p)
    \/ \E p \in Callers : CacheMiss(p)
    \/ \E p \in Callers : CacheHit(p)
    \/ \E p \in Callers : CachePanic(p)
    \/ \E p \in Callers : FetchFirstOk(p)
    \/ \E p \in Callers : FetchFirstErr(p)
    \/ \E p \in Callers : FetchFirstMirrorErr(p)
    \/ \E p \in Callers : GetFirstOk(p)
    \/ \E p \in Callers : GetFirstErr(p)
    \/ \E p \in Callers : RefetchOk(p)
    \/ \E p \in Callers : RefetchErr(p)
    \/ \E p \in Callers : RefetchMirrorErr(p)
    \/ \E p \in Callers : GetSecondOk(p)
    \/ \E p \in Callers : GetSecondErr(p)
    \/ \E p \in Callers : UnlockRecorded(p)
    \/ Tick
    \/ Sweep

SpecHistory == Init /\ [][NextHistory]_vars

----------------------------------------------------------------------------
(* helm repo index: index(dir, url, mergeTo) *)

MaxArchives == 2

Archive(file, name, version, digest) ==
    [file |-> file, name |-> name, version |-> version, digest |-> digest]

\* the packaged charts a directory may hold, in the order of their file names
ArchiveList ==
    << Archive("bar-1.0.0.tgz", "bar", <<1, 0, 0>>, "d3"),
       Archive("foo-1.0.0.tgz", "foo", <<1, 0, 0>>, "d1"),
       Archive("foo-2.0.0.tgz", "foo", <<2, 0, 0>>, "d2"),
       Archive("foo-copy.tgz", "foo", <<1, 0, 0>>, "d4") >>

RECURSIVE Pick(_, _)
\* the archives of ArchiveList at the positions in S, in order
Pick(S, k) ==
    IF k > Len(ArchiveList) THEN <<>>
    ELSE (IF k \in S THEN <<ArchiveList[k]>> ELSE <<>>) \o Pick(S, k + 1)

Directories ==
    {Pick(S, 1) : S \in {T \in SUBSET (1 .. Len(ArchiveList)) : Cardinality(T) <= MaxArchives}}

\* index files found at the merge target
ExistingA ==
    [NewIndexFile EXCEPT
        !["foo"] = <<ChartVersion("foo", <<1, 0, 0>>, "old", <<RefAbs>>)>>]
ExistingB ==
    [NewIndexFile EXCEPT
        !["foo"] = <<ChartVersion("foo", <<3, 0, 0>>, "d5", <<RefAbs>>),
                     ChartVersion("foo", <<2, 0, 0>>, "old", <<RefAbs>>),
                     ChartVersion("foo", <<0, 9, 0>>, "d6", <<RefAbs>>)>>,
        !["bar"] = <<ChartVersion("bar", <<0, 1, 0>>, "d7", <<RefAbs>>)>>]

ExistingFiles == {Missing, Garbage, File(ExistingA), File(ExistingB)}

\* the record IndexDirectory adds for an archive, its URL the file name
ArchiveRecord(a) ==
    ChartVersion(a.name, a.version, a.digest, <<URL("", "", FALSE, <<a.file>>)>>)

RECURSIVE ArchiveRecords(_)
ArchiveRecords(as) ==
    IF as = <<>> THEN <<>> ELSE <<ArchiveRecord(Head(as))>> \o ArchiveRecords(Tail(as))

\* repo.IndexDirectory(dir, url)
IndexDirectory(as) == AddAll(NewIndexFile, ArchiveRecords(as))

MergeIntoOther(i, i2) == Merge(i2, i)

\* i.Merge(i2)
MergeInto(i, i2) == Merge(i, i2)

Unsorted(i) == i

\* i.SortEntries() before i.WriteFile(out, 0644)
Sorted(i) == SortEntries(i)

InitIndex ==
    /\ cache = [k \in Locators |-> NoItem]
    /\ now = 0
    /\ mu = 0
    /\ pc = [p \in Callers |-> "idle"]
    /\ call = [p \in Callers |-> NoCall]
    /\ repoIndex = [p \in Callers |-> NewIndexFile]
    /\ result = [p \in Callers |-> NoResult]
    /\ st = [p \in Callers |-> NoStats]
    /\ ncalls = 0
    /\ lastFetched = [k \in Locators |-> NewIndexFile]
    /\ prev = NoPrev
    /\ job \in [archives : Directories, mergeTo : {""} \cup Paths, dirOk : BOOLEAN,
                phase : {"ready"}]
    /\ fs \in [Paths -> ExistingFiles]
    /\ outcome = NoOutcome
    /\ repo = NoRepo
    /\ tree = NoTree
    /\ ret = NoRet
    /\ calc = NoCalc

\* i.WriteFile(out, 0644) and the return of index: the write succeeds, or
\* fails leaving the file as it was or cut short
Finish(i, generated, files) ==
    /\ job' = [job EXCEPT !.phase = "done"]
    /\ \/ /\ fs' = [files EXCEPT !["out"] = File(Sorted(i))]
          /\ outcome' = [err |-> "", generated |-> generated, index |-> Sorted(i), before |-> fs]
       \/ /\ fs' \in {files, [files EXCEPT !["out"] = Garbage]}
          /\ outcome' = [err |-> "write", generated |-> generated, index |-> Sorted(i),
                         before |-> fs]
    /\ UNCHANGED <<lookupVars, repoVars, calcVars>>

\* repo.IndexDirectory fails
IndexDirFailed ==
    /\ job.phase = "ready"
    /\ ~job.dirOk
    /\ job' = [job EXCEPT !.phase = "done"]
    /\ outcome' = [NoOutcome EXCEPT !.err = "dir", !.before = fs]
    /\ UNCHANGED <<fs, lookupVars, repoVars, calcVars>>

\* index without --merge
IndexNoMerge ==
    /\ job.phase = "ready"
    /\ job.dirOk
    /\ job.mergeTo = ""
    /\ Finish(IndexDirectory(job.archives), IndexDirectory(job.archives), fs)

\* index --merge, the merge target missing: an empty index is written there
IndexMergeMissing ==
    /\ job.phase = "ready"
    /\ job.dirOk
    /\ job.mergeTo # ""
    /\ ~fs[job.mergeTo].exists
    /\ Finish(MergeInto(IndexDirectory(job.archives), NewIndexFile),
              IndexDirectory(job.archives),
              [fs EXCEPT ![job.mergeTo] = File(NewIndexFile)])

\* index --merge, the merge target loaded
IndexMergeExisting ==
    /\ job.phase = "ready"
    /\ job.dirOk
    /\ job.mergeTo # ""
    /\ fs[job.mergeTo].exists
    /\ fs[job.mergeTo].parses
    /\ Finish(MergeInto(IndexDirectory(job.archives), fs[job.mergeTo].index),
              IndexDirectory(job.archives), fs)

IndexMergeFailedWrites ==
    /\ job.phase = "ready"
    /\ job.dirOk
    /\ job.mergeTo # ""
    /\ fs[job.mergeTo].exists
    /\ ~fs[job.mergeTo].parses
    /\ job' = [job EXCEPT !.phase = "done"]
    /\ fs' = [fs EXCEPT !["out"] = File(Sorted(IndexDirectory(job.archives)))]
    /\ outcome' = [NoOutcome EXCEPT !.err = "merge failed", !.before = fs,
                                    !.generated = IndexDirectory(job.archives),
                                    !.index = Sorted(IndexDirectory(job.archives))]
    /\ UNCHANGED <<lookupVars, repoVars, calcVars>>

\* index --merge, LoadIndexFile fails: "merge failed"; i is as generated
IndexMergeFailed ==
    /\ job.phase = "ready"
    /\ job.dirOk
    /\ job.mergeTo # ""
    /\ fs[job.mergeTo].exists
    /\ ~fs[job.mergeTo].parses
    /\ job' = [job EXCEPT !.phase = "done"]
    /\ outcome' = [NoOutcome EXCEPT !.err = "merge failed", !.before = fs,
                                    !.generated = IndexDirectory(job.archives),
                                    !.index = IndexDirectory(job.archives)]
    /\ UNCHANGED <<fs, lookupVars, repoVars, calcVars>>

NextIndex ==
    \/ IndexDirFailed
    \/ IndexNoMerge
    \/ IndexMergeMissing
    \/ IndexMergeExisting
    \/ IndexMergeFailed

SpecIndex == InitIndex /\ [][NextIndex]_vars

----------------------------------------------------------------------------
(* ChartRepository: Load and generateIndex *)

MaxFiles == 3
MaxRuns == 2

\* an unparseable version string such as "1.2.0.0": four components
BadVersionA == <<1, 2, 0, 0>>
BadVersionB == <<0, 0, 0, 1>>

\* index files of the directory: LocalA is unsorted and holds two version
\* strings that do not parse
LocalA ==
    [NewIndexFile EXCEPT
        !["foo"] = <<ChartVersion("foo", <<1, 0, 0>>, "old", <<RefAbs>>),
                     ChartVersion("foo", BadVersionA, "d8", <<RefAbs>>),
                     ChartVersion("foo", <<3, 0, 0>>, "d5", <<RefAbs>>),
                     ChartVersion("foo", BadVersionB, "d9", <<RefAbs>>)>>]
LocalB ==
    [NewIndexFile EXCEPT
        !["bar"] = <<ChartVersion("bar", <<0, 1, 0>>, "d7", <<RefAbs>>)>>]

\* a file filepath.Walk visits: what its name matches and what reading it gives
TreeFile(name, isDir, indexName, tgz, index, chart, loads, digests) ==
    [name |-> name, isDir |-> isDir, indexName |-> indexName, tgz |-> tgz,
     index |-> index, chart |-> chart, loads |-> loads, digests |-> digests]

ChartFile(k) ==
    TreeFile(ArchiveList[k].file, FALSE, FALSE, TRUE, Garbage, ArchiveList[k], TRUE, TRUE)

TreeFiles ==
    {ChartFile(k) : k \in 1 .. Len(ArchiveList)} \cup
    { TreeFile("charts", TRUE, FALSE, FALSE, Garbage, ArchiveList[1], FALSE, FALSE),
      TreeFile("a-index.yaml", FALSE, TRUE, FALSE, File(LocalA), ArchiveList[1], FALSE, FALSE),
      TreeFile("b-index.yaml", FALSE, TRUE, FALSE, File(LocalB), ArchiveList[1], FALSE, FALSE),
      TreeFile("c-index.yaml", FALSE, TRUE, FALSE, Garbage, ArchiveList[1], FALSE, FALSE),
      TreeFile("d-index.yaml.tgz", FALSE, TRUE, TRUE, Garbage, ArchiveList[3], TRUE, TRUE),
      TreeFile("broken.tgz", FALSE, FALSE, TRUE, Garbage, ArchiveList[1], FALSE, FALSE),
      TreeFile("unreadable.tgz", FALSE, FALSE, TRUE, Garbage, ArchiveList[3], TRUE, FALSE),
      TreeFile("README.md", FALSE, FALSE, FALSE, Garbage, ArchiveList[1], FALSE, FALSE) }

\* the files of a tree in the order Walk visits them
Walks == UNION {[1 .. n -> TreeFiles] : n \in 0 .. MaxFiles}

InitRepo ==
    /\ cache = [k \in Locators |-> NoItem]
    /\ now = 0
    /\ mu = 0
    /\ pc = [p \in Callers |-> "idle"]
    /\ call = [p \in Callers |-> NoCall]
    /\ repoIndex = [p \in Callers |-> NewIndexFile]
    /\ result = [p \in Callers |-> NoResult]
    /\ st = [p \in Callers |-> NoStats]
    /\ ncalls = 0
    /\ lastFetched = [k \in Locators |-> NewIndexFile]
    /\ prev = NoPrev
    /\ job = NoJob
    /\ fs = NoFiles
    /\ outcome = NoOutcome
    /\ repo = NoRepo
    /\ \/ tree \in [root : {"dir"}, files : Walks]
       \/ tree \in [root : {"file", "none"}, files : {<<>>}]
    /\ ret = NoRet
    /\ calc = NoCalc

VisitFileBadIndexClears(r, f) ==
    IF f.isDir THEN r
    ELSE IF f.indexName
         THEN [r EXCEPT !.IndexFile = f.index.index]
         ELSE IF f.tgz THEN [r EXCEPT !.ChartPaths = Append(@, f)] ELSE r

\* the callback of filepath.Walk
VisitFile(r, f) ==
    IF f.isDir THEN r
    ELSE IF f.indexName
         THEN (IF ~f.index.parses THEN r ELSE [r EXCEPT !.IndexFile = f.index.index])
         ELSE IF f.tgz THEN [r EXCEPT !.ChartPaths = Append(@, f)] ELSE r

RECURSIVE Walk(_, _)
\* filepath.Walk(r.Config.Name, ...)
Walk(r, files) ==
    IF files = <<>> THEN r ELSE Walk(VisitFile(r, Head(files)), Tail(files))

\* Load: os.Stat fails
LoadStatErr ==
    /\ ret.op = "none"
    /\ tree.root = "none"
    /\ ret' = [op |-> "Load", err |-> "stat", before |-> repo, runs |-> 0]
    /\ UNCHANGED <<repo, tree, lookupVars, indexVars, calcVars>>

\* Load: "is not a directory"
LoadNotDir ==
    /\ ret.op = "none"
    /\ tree.root = "file"
    /\ ret' = [op |-> "Load", err |-> "not a directory", before |-> repo, runs |-> 0]
    /\ UNCHANGED <<repo, tree, lookupVars, indexVars, calcVars>>

\* Load: the walk, which never fails
LoadWalk ==
    /\ ret.op = "none"
    /\ tree.root = "dir"
    /\ repo' = Walk(repo, tree.files)
    /\ ret' = [op |-> "Load", err |-> "", before |-> repo, runs |-> 0]
    /\ UNCHANGED <<tree, lookupVars, indexVars, calcVars>>

IndexChartOverwrite(index, f) ==
    LET r == ArchiveRecord(f.chart)
    IN  IF ~Has(index, r.Name, r.Version) THEN Add(index, r)
        ELSE [index EXCEPT ![r.Name] =
                 [k \in 1 .. Len(@) |-> IF @[k].Version = r.Version THEN r ELSE @[k]]]

\* generateIndex: Has, then Add
IndexChart(index, f) ==
    LET r == ArchiveRecord(f.chart)
    IN  IF ~Has(index, r.Name, r.Version) THEN Add(index, r) ELSE index

EntriesUnsorted(index) == index

\* r.IndexFile.SortEntries() at the end of generateIndex
SortedEntries(index) == SortEntries(index)

RECURSIVE IndexCharts(_, _)
\* the loop of generateIndex and what follows it: [err, index]
IndexCharts(index, paths) ==
    IF paths = <<>> THEN [err |-> "", index |-> SortedEntries(index)]
    ELSE IF ~Head(paths).loads THEN [err |-> "load", index |-> index]
    ELSE IF ~Head(paths).digests THEN [err |-> "digest", index |-> index]
    ELSE IndexCharts(IndexChart(index, Head(paths)), Tail(paths))

\* generateIndex after a Load that succeeded, and once more
generateIndex ==
    /\ ret.op \in {"Load", "generateIndex"}
    /\ ret.err = ""
    /\ ret.runs < MaxRuns
    /\ LET g == IndexCharts(repo.IndexFile, repo.ChartPaths)
       IN  /\ repo' = [repo EXCEPT !.IndexFile = g.index]
           /\ ret' = [op |-> "generateIndex", err |-> g.err, before |-> repo,
                      runs |-> ret.runs + 1]
    /\ UNCHANGED <<tree, lookupVars, indexVars, calcVars>>

NextRepo ==
    \/ LoadStatErr
    \/ LoadNotDir
    \/ LoadWalk
    \/ generateIndex

SpecRepo == InitRepo /\ [][NextRepo]_vars

----------------------------------------------------------------------------
(* IndexFile.Get and ResolveReferenceURL applied to inputs *)

MaxVersions == 3

\* the version strings added to an index: three that parse and one that does not
VersionPool == {<<1, 2, 0>>, <<1, 3, 0>>, <<1, 2, 5>>, BadVersionA}

\* the constraints asked for: "", "1.2.0", "2.0.0", "1.2" and "1.2.0.0"
Constraints == {NoVersion, <<1, 2, 0>>, <<2, 0, 0>>, <<1, 2>>, BadVersionA}

\* the orders in which at most MaxVersions different versions are added
Insertions ==
    {vs \in UNION {[1 .. n -> VersionPool] : n \in 0 .. MaxVersions} :
        \A j, k \in 1 .. Len(vs) : j # k => vs[j] # vs[k]}

\* the record added for a version of "foo": its digest and URL name the version
FooRecord(v) ==
    ChartVersion("foo", v, <<"sha256", v>>, <<URL("", "", FALSE, <<"foo", v>>)>>)

FooRecords(vs) == [k \in 1 .. Len(vs) |-> FooRecord(vs[k])]

Bases == {RepoSlash, RepoNoSlash, RepoTwoSlashes, RepoOther, BadURL}
Refs == {RefFoo, RefAlt, RefAbs, RefRooted, BadURL}

\* NewIndexFile, Add for each version, SortEntries or not, then Get and Has
ApplyGet ==
    /\ calc.op = "none"
    /\ \E vs \in Insertions, sort \in BOOLEAN, c \in Constraints :
          LET built == AddAll(NewIndexFile, FooRecords(vs))
              index == IF sort THEN SortEntries(built) ELSE built
          IN  calc' = [op |-> "Get", added |-> FooRecords(vs), sorted |-> sort,
                       index |-> index, version |-> c,
                       got |-> Get(index, "foo", c), has |-> Has(index, "foo", c)]
    /\ UNCHANGED <<lookupVars, indexVars, repoVars>>

ApplyResolveReferenceURL ==
    /\ calc.op = "none"
    /\ \E base \in Bases, ref \in Refs :
          calc' = [op |-> "ResolveReferenceURL", baseURL |-> base, refURL |-> ref,
                   out |-> ResolveReferenceURL(base, ref)]
    /\ UNCHANGED <<lookupVars, indexVars, repoVars>>

NextCalc ==
    \/ ApplyGet
    \/ ApplyResolveReferenceURL

SpecCalc == Init /\ [][NextCalc]_vars

----------------------------------------------------------------------------
(* Properties of FindChartInAuthRepoURL *)

\* the caller is between mu.Lock() and the deferred mu.Unlock()
InCall(p) == pc[p] \in {"check", "fetch1", "get1", "fetch2", "get2", "ret"}

\* the call found an entry whose catalog lacks the requested chart
Stale(p) == st[p].hit /\ st[p].get1 = "err"

FetchFailed(p) == result[p].status \in {"NewRepoError", "DownloadError"}

\* the second Get of a call at its return
SecondGet(p) == Get(repoIndex[p], call[p].chartName, call[p].chartVersion)

\* C1, as claimed: a call that starts with a cache entry whose catalog lacks
\* the requested chart performs one Delete, one fetch and one second Get, and
\* ends with the chart-not-found error naming chart, version and repository
\* if the refetched catalog lacks the chart too.
C1_Original ==
    \A p \in Callers :
        pc[p] = "ret" /\ Stale(p)
            => /\ st[p].deletes = 1 /\ st[p].fetches = 1 /\ st[p].gets = 2
               /\ ~SecondGet(p).found => result[p] = ChartNotFound(call[p])

\* C1, amended: a call that starts with a cache entry whose catalog lacks the
\* requested chart performs one Delete followed by one fetch and never more;
\* when that fetch succeeds it performs one second Get and ends with the
\* chart-not-found error naming chart, version and repository if the
\* refetched catalog lacks the chart too; when that fetch fails it ends with
\* the fetch error and no second Get.
C1_StaleRetryOnce ==
    \A p \in Callers :
        /\ st[p].hit => st[p].deletes <= 1 /\ st[p].fetches <= 1 /\ st[p].gets <= 2
        /\ Stale(p) /\ pc[p] \in {"fetch2", "get2", "ret"} => st[p].deletes = 1
        /\ Stale(p) /\ pc[p] = "get2" => st[p].fetches = 1 /\ st[p].gets = 1
        /\ pc[p] = "ret" /\ Stale(p)
              => /\ st[p].fetches = 1
                 /\ IF st[p].failed
                    THEN st[p].gets = 1 /\ FetchFailed(p)
                    ELSE /\ st[p].gets = 2
                         /\ ~SecondGet(p).found => result[p] = ChartNotFound(call[p])
                         /\ SecondGet(p).found => result[p].status # "ChartNotFound"

C1_Witness ==
    \E p \in Callers :
        /\ pc[p] = "ret" /\ Stale(p) /\ ~st[p].failed
        /\ result[p] = ChartNotFound(call[p])
        /\ call[p].chartVersion = <<2, 0, 0>>

\* C2, as claimed: every entry of IndexFileCache holds an *IndexFile, the
\* catalog last downloaded for its locator, with an expiration instant.
C2_EntriesHoldCatalogs ==
    \A k \in Locators :
        cache[k].present
            => /\ cache[k].isIndexFile
               /\ cache[k].Object = lastFetched[k]
               /\ cache[k].Expiration > 0

\* C3: at most one caller is between mu.Lock() and mu.Unlock(), and it is the
\* holder of mu; every other caller is outside the call or waiting for mu.
C3_MutualExclusion ==
    \A p \in Callers :
        InCall(p) => /\ mu = p
                     /\ \A q \in Callers \ {p} : pc[q] \in {"idle", "lock"}

C3_Witness ==
    \E p, q \in Callers :
        /\ p # q
        /\ pc[p] = "fetch2" /\ pc[q] = "lock"
        /\ call[p].repoURL # call[q].repoURL

C5_Counts ==
    \A p \in Callers :
        /\ st[p].fetches <= 2 /\ st[p].gets <= 2
        /\ st[p].get1 = "ok" => st[p].fetches = (IF st[p].hit THEN 0 ELSE 1)
        /\ st[p].get1 = "ok" => pc[p] = "ret" /\ st[p].deletes = 0 /\ st[p].gets = 1
        /\ pc[p] = "get1" => st[p].fetches = (IF st[p].hit THEN 0 ELSE 1)
        /\ st[p].get1 = "err"
              => /\ st[p].deletes = 1
                 /\ pc[p] \in {"fetch2", "get2", "ret"}
                 /\ pc[p] = "fetch2" => ~cache[call[p].repoURL].present
                 /\ pc[p] = "fetch2" => st[p].fetches = (IF st[p].hit THEN 0 ELSE 1)
                 /\ pc[p] \in {"get2", "ret"} => st[p].fetches = (IF st[p].hit THEN 1 ELSE 2)

\* C5: the fetch after a miss puts the catalog it returns in the cache under
\* the locator, expiring TTL after the fetch.
C5_Populates ==
    \A p \in Callers :
        pc[p] = "fetch1" /\ pc'[p] = "get1"
            => cache'[call[p].repoURL] = IndexItem(repoIndex'[p], now)

C5_FetchCount == []C5_Counts /\ [][C5_Populates]_vars

C5_Witness ==
    \E p \in Callers :
        pc[p] = "ret" /\ ~st[p].hit /\ st[p].get1 = "err" /\ st[p].fetches = 2
            /\ st[p].gets = 2

\* C6: only a failed Get leads to the delete and the second fetch; a failed
\* fetch, a chart version without URLs and a URL that does not resolve end
\* the call at once, and a failed fetch is returned as an error.
C6_OnlyNotFoundRetries ==
    \A p \in Callers :
        /\ pc[p] \in {"fetch2", "get2"} => st[p].get1 = "err" /\ ~st[p].failed
        /\ st[p].deletes > 0 => st[p].get1 = "err"
        /\ st[p].failed
              => /\ pc[p] = "ret" /\ FetchFailed(p)
                 /\ st[p].gets = (IF st[p].get1 = "err" THEN 1 ELSE 0)
                 /\ st[p].fetches = st[p].deletes + (IF st[p].hit THEN 0 ELSE 1)
        /\ FetchFailed(p) => st[p].failed
        /\ pc[p] = "ret" /\ result[p].status \in {"NoDownloadableURLs", "URLResolution"}
              => /\ st[p].gets = (IF st[p].get1 = "err" THEN 2 ELSE 1)
                 /\ st[p].deletes = (IF st[p].get1 = "err" THEN 1 ELSE 0)

C6_Witness ==
    \E p \in Callers :
        pc[p] = "ret" /\ st[p].failed /\ st[p].get1 = "err" /\ FetchFailed(p)

C6_WitnessURL ==
    \E p \in Callers :
        pc[p] = "ret" /\ result[p].status = "URLResolution" /\ st[p].get1 = "ok"

C6_WitnessNoURLs ==
    \E p \in Callers :
        pc[p] = "ret" /\ result[p].status = "NoDownloadableURLs" /\ st[p].get1 = "ok"

\* the cache lookup of a call and what it found
Looked(p) == pc[p] = "check" /\ pc'[p] # "check"
TookMiss(p) == pc'[p] = "fetch1"

C7_WitnessBoundary ==
    \E p \in Callers :
        /\ pc[p] = "get1" /\ st[p].hit
        /\ cache[call[p].repoURL].present
        /\ now = cache[call[p].repoURL].Expiration

C8_FirstURL ==
    \A p \in Callers :
        pc[p] = "ret" /\ (st[p].get1 = "ok" \/ (st[p].gets = 2 /\ SecondGet(p).found))
            => LET urls == SecondGet(p).cv.URLs
               IN  IF urls = <<>> THEN result[p] = Err("NoDownloadableURLs")
                   ELSE LET r == ResolveReferenceURL(call[p].repoURL, Head(urls))
                        IN  IF r.err THEN result[p] = Err("URLResolution")
                            ELSE result[p] = Ok(r.url)

C8_Witness ==
    \E p \in Callers :
        /\ pc[p] = "ret" /\ st[p].gets = 2 /\ result[p].status = "ok"
        /\ Len(SecondGet(p).cv.URLs) = 2
        /\ result[p].url = RefAbs

C8_WitnessFirst ==
    \E p \in Callers :
        /\ pc[p] = "ret" /\ st[p].get1 = "ok" /\ result[p].status = "ok"
        /\ result[p].url = URL("https", "repo.example", TRUE, <<"charts", "foo-1.0.0.tgz">>)

----------------------------------------------------------------------------
(* Properties of index(dir, url, mergeTo) *)

Records(index, n) == {index[n][k] : k \in 1 .. Len(index[n])}

\* the workflow returned nil
Indexed == job.phase = "done" /\ outcome.err = ""

\* the merge target as it was when the workflow started
Target == outcome.before[job.mergeTo]

MergedExisting == Indexed /\ job.mergeTo # "" /\ Target.exists
MergedMissing == Indexed /\ job.mergeTo # "" /\ ~Target.exists

\* descending by version, the versions that do not parse last
IsSorted(s) == \A j, k \in 1 .. Len(s) : j < k => ~Before(s[k], s[j])

\* C9: after a merge with an existing index, a (chart, version) of the
\* generated index has in the result the generated record and no other,
\* digest and URLs unchanged; a (chart, version) of the existing index alone
\* has its record in the result; the result holds nothing else.
C9_LocalPriority ==
    MergedExisting =>
        \A n \in ChartNames :
            /\ Records(outcome.generated, n) \subseteq Records(outcome.index, n)
            /\ \A r \in Records(outcome.index, n) :
                  Has(outcome.generated, n, r.Version) => r \in Records(outcome.generated, n)
            /\ \A r \in Records(Target.index, n) :
                  ~Has(outcome.generated, n, r.Version) => r \in Records(outcome.index, n)
            /\ Records(outcome.index, n)
                  \subseteq Records(outcome.generated, n) \cup Records(Target.index, n)
            /\ Len(outcome.index[n]) = Cardinality(Records(outcome.index, n))

C9_Witness ==
    /\ MergedExisting
    /\ Target.index = ExistingA
    /\ ChartVersion("foo", <<1, 0, 0>>, "d1", <<RefFoo>>) \in Records(outcome.index, "foo")
    /\ Len(outcome.index["foo"]) = 2

C10_WitnessExisting ==
    /\ MergedExisting
    /\ Target.index = ExistingB
    /\ Len(outcome.index["foo"]) = 4

\* the merge target was there and LoadIndexFile could not read it
TargetUnreadable ==
    /\ job.phase = "done" /\ job.dirOk /\ job.mergeTo # ""
    /\ Target.exists /\ ~Target.parses

\* C11: when the merge target does not parse, the workflow ends with the
\* "merge failed" error, the generated index is as IndexDirectory made it
\* (not merged, not sorted), and no file is written: the output path and the
\* merge target are as they were.
C11_MergeAllOrNothing ==
    TargetUnreadable =>
        /\ outcome.err = "merge failed"
        /\ outcome.index = outcome.generated
        /\ \A n \in ChartNames :
              \A r \in Records(outcome.index, n) :
                  \E k \in 1 .. Len(job.archives) : r = ArchiveRecord(job.archives[k])
        /\ fs = outcome.before

C11_Witness ==
    /\ TargetUnreadable
    /\ job.mergeTo = "other"
    /\ outcome.err = "merge failed"
    /\ Len(outcome.index["foo"]) = 2
    /\ fs["out"] = File(ExistingA)

----------------------------------------------------------------------------
(* Properties of ChartRepository *)

Loaded == ret.op = "Load" /\ ret.err = ""
Generated == ret.op = "generateIndex" /\ ret.err = ""

RECURSIVE Folded(_, _)
\* the index after the loop of generateIndex, before SortEntries
Folded(index, paths) ==
    IF paths = <<>> THEN index ELSE Folded(IndexChart(index, Head(paths)), Tail(paths))

\* how often r occurs in s
Count(s, r) == Cardinality({k \in 1 .. Len(s) : s[k] = r})

SameRecords(s, t) ==
    /\ Len(s) = Len(t)
    /\ \A k \in 1 .. Len(s) : Count(s, s[k]) = Count(t, s[k])

Unparseable(s) == SelectSeq(s, LAMBDA r : ~Parses(r.Version))

\* C12: the index generateIndex leaves is, for every chart, in descending
\* version order with the versions that do not parse last and in the order
\* they had; it holds the records of the unsorted index, each as it was, no
\* more and no fewer; SortEntries applied to it again gives it back, and so
\* does a second generateIndex.
C12_SortEntries ==
    Generated =>
        \A n \in ChartNames :
            LET unsorted == Folded(ret.before.IndexFile, repo.ChartPaths)[n]
                sorted == repo.IndexFile[n]
            IN  /\ IsSorted(sorted)
                /\ Unparseable(sorted) = Unparseable(unsorted)
                /\ SameRecords(sorted, unsorted)
                /\ SortVersions(sorted) = sorted
                /\ ret.runs > 1 => sorted = ret.before.IndexFile[n]

C12_Witness ==
    /\ Generated
    /\ ret.runs = 1
    /\ ret.before.IndexFile = LocalA
    /\ Len(repo.IndexFile["foo"]) = 5
    /\ repo.IndexFile["foo"][4].Version = BadVersionA
    /\ repo.IndexFile["foo"][5].Version = BadVersionB

C12_WitnessAgain ==
    /\ Generated
    /\ ret.runs = 2
    /\ Len(repo.IndexFile["foo"]) = 5

----------------------------------------------------------------------------
(* Properties of IndexFile.Get and ResolveReferenceURL *)

Applied(op) == calc.op = op

\* the highest of the versions of s that parse
IsHighest(r, s) ==
    /\ Parses(r.Version)
    /\ \A k \in 1 .. Len(s) : Parses(s[k].Version) => ~SemverLess(r.Version, s[k].Version)

\* no record has the version, and none satisfies it as a range
Unmatched(s, c) ==
    \A k \in 1 .. Len(s) :
        s[k].Version # c /\ ~(Parses(s[k].Version) /\ Satisfies(s[k].Version, c))

\* every version added once is had, and Get with it returns the record added
AddedAreGot ==
    \A k \in 1 .. Len(calc.added) :
        /\ Has(calc.index, "foo", calc.added[k].Version)
        /\ Get(calc.index, "foo", calc.added[k].Version) = Found(calc.added[k])

GetExact ==
    /\ calc.has => calc.got.found /\ calc.got.cv.Version = calc.version
                   /\ \E k \in 1 .. Len(calc.added) : calc.got.cv = calc.added[k]
    /\ calc.version # NoVersion /\ Unmatched(calc.index["foo"], calc.version)
           => ~calc.got.found

SomeParses == \E k \in 1 .. Len(calc.added) : Parses(calc.added[k].Version)

C13_WitnessNotFound ==
    /\ Applied("Get")
    /\ calc.added = FooRecords(<< <<1, 2, 0>>, <<1, 3, 0>>, <<1, 2, 5>> >>)
    /\ calc.version = <<2, 0, 0>>
    /\ ~calc.got.found

RECURSIVE NoTrailingSlash(_)
\* the segments of a path without the empty ones that end it
NoTrailingSlash(segs) ==
    IF segs # <<>> /\ segs[Len(segs)] = ""
    THEN NoTrailingSlash(SubSeq(segs, 1, Len(segs) - 1))
    ELSE segs

\* the number of slashes that end the base path
TrailingSlashes(u) == Len(u.segs) - Len(NoTrailingSlash(u.segs))

\* base and reference both parse
Wellformed == calc.baseURL.valid /\ calc.refURL.valid

IsAbsolute(u) == u.scheme # ""
\* a reference that is a path, with or without a leading slash
IsRelative(u) == u.scheme = "" /\ u.host = "" /\ u.segs # <<>>

\* the base with its path cut to end in one slash, and the reference's path after it
Joined(base, ref) ==
    [base EXCEPT !.rooted = TRUE, !.segs = NoTrailingSlash(base.segs) \o ref.segs]

AbsoluteUnchanged ==
    Wellformed /\ IsAbsolute(calc.refURL)
        => calc.out = [err |-> FALSE, url |-> calc.refURL]

MalformedFails ==
    ~Wellformed => calc.out.err /\ calc.out.url = BadURL

\* C14 as stated: every relative reference is joined to the base path cut to
\* exactly one trailing slash.
C14_Original ==
    Applied("ResolveReferenceURL") =>
        /\ AbsoluteUnchanged
        /\ Wellformed /\ IsRelative(calc.refURL)
               => calc.out = [err |-> FALSE, url |-> Joined(calc.baseURL, calc.refURL)]
        /\ MalformedFails

\* C14: an absolute reference is returned unchanged for every base; a
\* relative reference without a leading slash is joined to the base path
\* after one trailing slash, if there is one, is taken off it and one is put
\* on, so a base path ending in one slash and the same path ending in none
\* give the same URL, while a base path ending in more slashes keeps all but
\* one of them before the joined reference; a relative reference with a
\* leading slash replaces the base path; a malformed base or reference gives
\* an error and no URL.
C14_URLJoin ==
    Applied("ResolveReferenceURL") =>
        /\ AbsoluteUnchanged
        /\ Wellformed /\ IsRelative(calc.refURL) /\ ~calc.refURL.rooted
               /\ TrailingSlashes(calc.baseURL) <= 1
               => /\ calc.out = [err |-> FALSE, url |-> Joined(calc.baseURL, calc.refURL)]
                  /\ \A b \in Bases :
                        /\ b.valid /\ TrailingSlashes(b) <= 1
                        /\ [b EXCEPT !.segs = NoTrailingSlash(@), !.rooted = TRUE]
                             = [calc.baseURL EXCEPT !.segs = NoTrailingSlash(@), !.rooted = TRUE]
                        => ResolveReferenceURL(b, calc.refURL) = calc.out
        /\ Wellformed /\ IsRelative(calc.refURL) /\ ~calc.refURL.rooted
               /\ TrailingSlashes(calc.baseURL) > 1
               => calc.out.url.segs =
                      SubSeq(calc.baseURL.segs, 1, Len(calc.baseURL.segs) - 1) \o calc.refURL.segs
        /\ Wellformed /\ IsRelative(calc.refURL) /\ calc.refURL.rooted
               => calc.out.url = [calc.baseURL EXCEPT !.rooted = TRUE, !.segs = calc.refURL.segs]
        /\ MalformedFails

\* "foo-1.0.0.tgz" on "https://repo.example/charts" gives
\* "https://repo.example/charts/foo-1.0.0.tgz"
C14_Witness ==
    /\ Applied("ResolveReferenceURL")
    /\ calc.baseURL = RepoNoSlash
    /\ calc.refURL = RefFoo
    /\ calc.out = [err |-> FALSE,
                   url |-> URL("https", "repo.example", TRUE, <<"charts", "foo-1.0.0.tgz">>)]
    /\ ResolveReferenceURL(RepoSlash, RefFoo) = calc.out

C14_WitnessAbsolute ==
    /\ Applied("ResolveReferenceURL")
    /\ calc.baseURL = RepoTwoSlashes
    /\ calc.refURL = RefAbs
    /\ calc.out.url = RefAbs

----------------------------------------------------------------------------
(* Properties of the cache directory files, the lock and the sweep *)

\* the fetch of p's call downloaded and parsed an index, which the call has
\* not given up for a refetch
Downloaded(p) == st[p].mirror # "none"

\* the call goes on with the index it downloaded, which was put in the cache
CachedAndUsed(p) ==
    /\ pc[p] \in {"get1", "get2", "ret"}
    /\ ~FetchFailed(p)
    /\ repoIndex[p] \in RemoteCatalogs
    /\ LET item == cache[call[p].repoURL]
       IN  pc[p] # "ret" /\ item.present => item.isIndexFile /\ item.Object = repoIndex[p]

\* C15 as stated: an index that was downloaded and parsed is cached and used
\* whether or not the files of the cache directory could be written.
C15_Original ==
    \A p \in Callers : Downloaded(p) => CachedAndUsed(p)

\* C15: FindChartInAuthRepoURL and the cache never read the files
\* DownloadIndexFile writes; an index that was downloaded and parsed is cached
\* and used when its file was written, and when writing that file fails the
\* call returns the download error, the index is not put in the cache and
\* the locator is left with no entry a lookup finds.
C15_MirrorWrite ==
    \A p \in Callers :
        /\ st[p].mirror = "written" => CachedAndUsed(p)
        /\ st[p].mirror = "no index file"
               => /\ pc[p] = "ret"
                  /\ result[p] = Err("DownloadError")
                  /\ ~CacheFound(cache, call[p].repoURL, now)

C15_Witness ==
    \E p \in Callers :
        /\ st[p].mirror = "no index file"
        /\ st[p].fetches = 1
        /\ ~st[p].hit
        /\ cache[call[p].repoURL] = NoItem

C15_WitnessWritten ==
    \E p \in Callers :
        /\ st[p].mirror = "written"
        /\ pc[p] = "ret"
        /\ result[p].status = "ok"

\* a return of FindChartInAuthRepoURL runs the deferred mu.Unlock()
ReturnUnlocks ==
    \A p \in Callers : pc[p] = "ret" /\ pc'[p] # "ret" => pc'[p] = "idle" /\ mu' = 0

\* C16: a caller holds mu exactly from mu.Lock() to its return, whatever the
\* way the call ends; every return releases mu; every caller that holds mu
\* releases it in the end, and every caller waiting at mu.Lock() gets it in
\* the end.
C16_LockReleased ==
    /\ [](\A p \in Callers : (mu = p) <=> InCall(p))
    /\ [][ReturnUnlocks]_vars
    /\ \A p \in Callers : (mu = p) ~> (mu # p)
    /\ \A p \in Callers : (pc[p] = "lock") ~> (mu = p)

\* a call ended by the failed type assertion, the lock held until its return
C16_Witness ==
    \E p \in Callers : pc[p] = "ret" /\ result[p].status = "panic" /\ mu = p

\* a call that failed to fetch holds the lock at its return while the other
\* caller waits at mu.Lock()
C16_WitnessWaiting ==
    \E p, q \in Callers :
        /\ pc[p] = "ret" /\ mu = p /\ FetchFailed(p)
        /\ pc[q] = "lock"

\* the other ways a call ends, each with the lock still held at the return
C16_WitnessNotFound ==
    \E p \in Callers : pc[p] = "ret" /\ mu = p /\ result[p].status = "ChartNotFound"
C16_WitnessNoURLs ==
    \E p \in Callers : pc[p] = "ret" /\ mu = p /\ result[p].status = "NoDownloadableURLs"
C16_WitnessURLResolution ==
    \E p \in Callers : pc[p] = "ret" /\ mu = p /\ result[p].status = "URLResolution"

\* the entry of the locator of p's call
Entry(p) == cache[call[p].repoURL]

\* p's call has returned the chart-not-found error of its second Get
SecondGetFailed(p) ==
    pc[p] = "ret" /\ st[p].gets = 2 /\ result[p] = ChartNotFound(call[p])

CacheAfterFailure ==
    \A p \in Callers :
        /\ pc[p] = "ret" /\ FetchFailed(p) /\ st[p].get1 = "none"
               => ~CacheFound(cache, call[p].repoURL, now)
        /\ pc[p] = "ret" /\ FetchFailed(p) /\ st[p].get1 = "err"
               => Entry(p) = NoItem
        /\ SecondGetFailed(p) /\ Entry(p).present
               => /\ Entry(p).isIndexFile
                  /\ Entry(p).Object = repoIndex[p]
                  /\ Entry(p).Expiration <= now + TTL

\* the refetch stores what it downloaded with the default expiration, and the
\* failing second Get leaves the cache as it is
RefetchedIsKept ==
    \A p \in Callers :
        /\ pc[p] = "fetch2" /\ pc'[p] = "get2"
               => cache'[call[p].repoURL] = IndexItem(repoIndex'[p], now)
        /\ pc[p] = "get2" /\ pc'[p] = "ret" /\ result'[p].status = "ChartNotFound"
               => cache' = cache

C17_WitnessRefetchFailed ==
    \E p \in Callers :
        pc[p] = "ret" /\ FetchFailed(p) /\ st[p].hit /\ st[p].get1 = "err" /\ Entry(p) = NoItem

\* the miss was on an expired entry the sweep has not yet removed
C17_WitnessMissFailed ==
    \E p \in Callers :
        /\ pc[p] = "ret" /\ FetchFailed(p) /\ st[p].get1 = "none"
        /\ Entry(p).present /\ Expired(Entry(p), now)

----------------------------------------------------------------------------
(* Properties of generateIndex and Load *)

\* the positions in r.ChartPaths of the archives that do not load or digest
Failing == {k \in 1 .. Len(repo.ChartPaths) :
               ~repo.ChartPaths[k].loads \/ ~repo.ChartPaths[k].digests}

\* the archives generateIndex gets through: all, or those before the first failing
Visited == IF Failing = {} THEN Len(repo.ChartPaths) ELSE Min(Failing) - 1

SameChart(a, b) == a.name = b.name /\ a.version = b.version

NoDuplicates(index) ==
    \A n \in ChartNames :
        \A j, k \in 1 .. Len(index[n]) : j # k => index[n][j].Version # index[n][k].Version

\* C18: generateIndex keeps every record the index held, with its digest and
\* URLs, whatever the digest of an archive of that name and version; a record
\* it adds is that of the first archive visited with its name and version,
\* which the index did not have; every archive visited is had afterwards; no
\* two records of a chart share a version; when all archives load the index
\* is sorted and no error is returned, and otherwise the error of the first
\* failing archive is returned and no later archive is added.
C18_GenerateIndex ==
    ret.op = "generateIndex" =>
        LET paths == repo.ChartPaths
            before == ret.before.IndexFile
            after == repo.IndexFile
        IN  /\ \A n \in ChartNames : Records(before, n) \subseteq Records(after, n)
            /\ \A n \in ChartNames :
                  \A r \in Records(after, n) \ Records(before, n) :
                      /\ ~Has(before, n, r.Version)
                      /\ \E k \in 1 .. Visited :
                            /\ r = ArchiveRecord(paths[k].chart)
                            /\ \A j \in 1 .. k - 1 : ~SameChart(paths[j].chart, paths[k].chart)
            /\ \A k \in 1 .. Visited : Has(after, paths[k].chart.name, paths[k].chart.version)
            /\ NoDuplicates(after)
            /\ Failing = {} => ret.err = "" /\ \A n \in ChartNames : IsSorted(after[n])
            /\ Failing # {} =>
                  ret.err = IF ~paths[Min(Failing)].loads THEN "load" ELSE "digest"

\* the index had foo 1.0.0 with digest "old"; foo-1.0.0.tgz, whose digest is
\* "d1", was visited and the record kept its digest
C18_Witness ==
    /\ Generated
    /\ ret.before.IndexFile = LocalA
    /\ \E k \in 1 .. Len(repo.ChartPaths) : repo.ChartPaths[k] = ChartFile(2)
    /\ \E k \in 1 .. Len(repo.IndexFile["foo"]) :
          /\ repo.IndexFile["foo"][k].Version = <<1, 0, 0>>
          /\ repo.IndexFile["foo"][k].Digest = "old"

\* foo-copy.tgz and foo-1.0.0.tgz hold the same chart version: the first
\* visited gives the record
C18_WitnessFirstVisited ==
    /\ Generated
    /\ repo.ChartPaths = <<ChartFile(4), ChartFile(2)>>
    /\ repo.IndexFile["foo"] = <<ArchiveRecord(ArchiveList[4])>>

\* an archive added, then one that does not load
C18_WitnessError ==
    /\ ret.op = "generateIndex"
    /\ ret.err = "load"
    /\ Len(repo.ChartPaths) = 3
    /\ Visited = 1
    /\ Len(repo.IndexFile["foo"]) = 1

C18_WitnessDigestError ==
    /\ ret.op = "generateIndex"
    /\ ret.err = "digest"

\* the index files of the tree that parse, in the order visited
IndexFilesRead ==
    SelectSeq(tree.files, LAMBDA f : ~f.isDir /\ f.indexName /\ f.index.parses)

\* the index Load leaves: that of the last index file read, if any
LastIndexWins ==
    repo.IndexFile = IF IndexFilesRead = <<>> THEN ret.before.IndexFile
                     ELSE IndexFilesRead[Len(IndexFilesRead)].index.index

NotADirectory ==
    tree.root = "file" => ret.err = "not a directory" /\ repo = ret.before

\* C19 as stated: every file with the .tgz suffix is recorded.
C19_Original ==
    ret.op = "Load" =>
        /\ NotADirectory
        /\ tree.root = "dir" =>
              /\ ret.err = ""
              /\ repo.ChartPaths = ret.before.ChartPaths
                                   \o SelectSeq(tree.files, LAMBDA f : ~f.isDir /\ f.tgz)
              /\ LastIndexWins

\* C19: Load fails with the not-a-directory error, the index and the chart
\* paths as they were, when the root is a file; on a directory it returns no
\* error, the chart paths are those it had and then every file visited whose
\* name ends in .tgz and does not contain "-index.yaml", in the order
\* visited, and the index is that of the last file visited whose name
\* contains "-index.yaml" and which parses, or the index it had when there is
\* none: an index file that does not parse changes nothing.
C19_Load ==
    ret.op = "Load" =>
        /\ NotADirectory
        /\ tree.root = "none" => ret.err = "stat" /\ repo = ret.before
        /\ tree.root = "dir" =>
              /\ ret.err = ""
              /\ repo.ChartPaths =
                     ret.before.ChartPaths
                     \o SelectSeq(tree.files, LAMBDA f : ~f.isDir /\ f.tgz /\ ~f.indexName)
              /\ LastIndexWins

\* two index files that parse, then one that does not: the second is the index
C19_Witness ==
    /\ Loaded
    /\ Len(tree.files) = 3
    /\ tree.files[1].index = File(LocalA)
    /\ tree.files[2].index = File(LocalB)
    /\ tree.files[3].indexName /\ ~tree.files[3].index.parses
    /\ repo.IndexFile = LocalB

C19_WitnessArchives ==
    /\ Loaded
    /\ Len(tree.files) = 3
    /\ tree.files[1].isDir
    /\ repo.ChartPaths = <<ChartFile(2), ChartFile(3)>>

C19_WitnessNotADirectory ==
    ret.op = "Load" /\ ret.err = "not a directory"

----------------------------------------------------------------------------
(* Properties of the janitor *)

SomeExpired == \E k \in Locators : cache[k].present /\ Expired(cache[k], now)

\* a step of the janitor that removes something: no caller moves
Swept == pc' = pc /\ cache' # cache

\* the janitor is never kept from removing an expired entry, whoever holds mu
SweepNotBlocked == SomeExpired => ENABLED (Sweep /\ cache' # cache)

\* a call that found its index in the cache keeps it, and returns what Get on
\* it gives, whatever has become of the entry
HitCompletes ==
    \A p \in Callers :
        /\ st[p].hit /\ pc[p] = "get1" => repoIndex[p] \in RemoteCatalogs
        /\ st[p].hit /\ pc[p] = "ret" /\ st[p].get1 = "ok"
               => /\ repoIndex[p] \in RemoteCatalogs
                  /\ result[p] = ChartURL(call[p].repoURL, SecondGet(p).cv)

SweepOnlyExpired ==
    /\ Swept =>
          /\ \A k \in Locators :
                \/ cache'[k] = cache[k]
                \/ cache[k].present /\ Expired(cache[k], now) /\ cache'[k] = NoItem
          /\ mu' = mu /\ repoIndex' = repoIndex /\ result' = result /\ call' = call
    /\ \A k \in Locators :
          cache[k].present /\ ~Expired(cache[k], now) /\ ~cache'[k].present
              => \E p \in Callers : mu = p /\ pc[p] = "get1" /\ call[p].repoURL = k

\* C20: the janitor can remove an expired entry in every state, whoever holds
\* mu; a step of the janitor removes only entries whose expiration has passed
\* and leaves the lock and the callers' locals as they are; an entry that has
\* not expired goes only by the Delete of the caller holding mu; and a call
\* that took its index from the cache returns the chart that index gives even
\* when the entry is gone before it returns.
C20_Sweep == []SweepNotBlocked /\ [][SweepOnlyExpired]_vars /\ []HitCompletes

\* an expired entry the janitor can remove while a caller holding mu is fetching
C20_Witness ==
    \E p \in Callers :
        /\ mu = p /\ pc[p] \in {"fetch1", "fetch2"}
        /\ SomeExpired
        /\ ENABLED (Sweep /\ cache' # cache)

\* a call that hit the cache returns its chart after the entry was swept
C20_WitnessHit ==
    \E p \in Callers :
        /\ st[p].hit /\ pc[p] = "ret" /\ result[p].status = "ok"
        /\ Entry(p) = NoItem

----------------------------------------------------------------------------
(* Properties of successive calls *)

\* the same repoURL, chartName and chartVersion
SameRequest(c, d) ==
    c.repoURL = d.repoURL /\ c.chartName = d.chartName /\ c.chartVersion = d.chartVersion

\* p's call has returned; the call before it returned a URL for the same
\* request, and p's lookup found the entry that call left
Repeated(p) ==
    /\ pc[p] = "ret"
    /\ prev.made /\ prev.result.status = "ok"
    /\ SameRequest(prev.call, call[p])
    /\ st[p].hit

\* C21: a call that repeats, within the expiration of the entry, the request
\* of a call that returned a URL makes no fetch and returns the same URL.
C21_RepeatedStable ==
    \A p \in Callers : Repeated(p) => st[p].fetches = 0 /\ result[p] = prev.result

\* the part of C21 that holds: the call before found its chart at the first Get
C21_FirstAttemptStable ==
    \A p \in Callers :
        Repeated(p) /\ prev.st.gets = 1 => st[p].fetches = 0 /\ result[p] = prev.result

C21_WitnessFirstAttempt ==
    \E p \in Callers : Repeated(p) /\ prev.st.gets = 1 /\ result[p].status = "ok"

\* p's call found an entry and Get found the chart in its catalog
HitServed(p) == pc[p] = "ret" /\ st[p].hit /\ st[p].get1 = "ok"

\* the call before p's downloaded the catalog of p's locator with other
\* credentials than p's, and its last download succeeded
FetchedByOther(p) ==
    /\ prev.made
    /\ prev.call.repoURL = call[p].repoURL
    /\ prev.call.username # call[p].username
    /\ prev.st.fetches > 0 /\ ~prev.st.failed

\* the result of a call served from the catalog `index`: no credential in it
Served(c, index) == ChartURL(c.repoURL, Get(index, c.chartName, c.chartVersion).cv)

\* C22: the entry of IndexFileCache is found by the repository URL alone.  A
\* call that finds an entry and whose Get succeeds makes no fetch and returns
\* what the URL, chart name, version and cached catalog determine, whatever
\* its credentials; the catalog a call downloaded with its credentials is,
\* until the entry expires, what the next caller of the same URL with other
\* credentials is served, and that caller's lookup completes.
C22_KeyedByURL ==
    \A p \in Callers :
        /\ HitServed(p) => st[p].fetches = 0 /\ result[p] = Served(call[p], repoIndex[p])
        /\ pc[p] = "check" /\ FetchedByOther(p) /\ CacheFound(cache, call[p].repoURL, now)
              => /\ cache[call[p].repoURL].isIndexFile
                 /\ cache[call[p].repoURL].Object = lastFetched[call[p].repoURL]
        /\ pc[p] = "ret" /\ st[p].hit /\ FetchedByOther(p) => result[p].status # "panic"

\* the part of C22 that holds: the second Get of the call before, if it made
\* one, failed
C22_FirstFetchServed ==
    \A p \in Callers :
        /\ HitServed(p) => st[p].fetches = 0 /\ result[p] = Served(call[p], repoIndex[p])
        /\ (prev.st.gets = 2 => prev.result.status = "ChartNotFound")
           => /\ pc[p] = "check" /\ FetchedByOther(p) /\ CacheFound(cache, call[p].repoURL, now)
                 => /\ cache[call[p].repoURL].isIndexFile
                    /\ cache[call[p].repoURL].Object = lastFetched[call[p].repoURL]
              /\ pc[p] = "ret" /\ st[p].hit /\ FetchedByOther(p)
                 => result[p].status # "panic"

\* a caller is served, without a fetch, the catalog another caller downloaded
C22_WitnessServed ==
    \E p \in Callers :
        HitServed(p) /\ FetchedByOther(p) /\ result[p].status = "ok" /\ st[p].fetches = 0

----------------------------------------------------------------------------
(* The entries a call touches *)

\* a step of p's call of FindChartInAuthRepoURL, between mu.Lock() and the return
StepOf(p) == pc[p] \notin {"idle", "lock"} /\ pc'[p] # pc[p]

\* C23: a step of a call for a repository URL leaves the entry of every other
\* URL as it is (present or not, its catalog, its expiration), whether the call
\* hits, misses, deletes, refetches, fails or panics; and what a hit reads is
\* the entry of its own URL.
C23_OtherEntriesUnchanged ==
    [][\A p \in Callers :
          StepOf(p) =>
              /\ \A k \in Locators \ {call[p].repoURL} : cache'[k] = cache[k]
              /\ pc[p] = "check" /\ pc'[p] = "get1"
                    => repoIndex'[p] = cache[call[p].repoURL].Object]_vars

\* a call has deleted and set the entry of its URL while the other URL has one
C23_Witness ==
    \E p \in Callers :
        /\ pc[p] = "ret" /\ st[p].deletes = 1 /\ st[p].fetches = 2
        /\ cache[call[p].repoURL].present
        /\ \E k \in Locators \ {call[p].repoURL} : cache[k].present /\ cache[k].isIndexFile

====
